---- MODULE Spec2Model ----
(***************************************************************************)
(* A model of articles.py, the Article Ideas Generator: the Flask handler  *)
(* index() with the process-wide dictionary PAGE it mutates, and the two   *)
(* MediaWiki fetchers get_page_sections() and get_red_links().             *)
(*                                                                         *)
(* Strings that the handler builds by concatenation are sequences of       *)
(* tokens: the root page title, the separators "/" and "#", and the        *)
(* user-supplied form values.  Python dictionaries and JSON objects are    *)
(* functions whose DOMAIN is the set of keys present, so that              *)
(* `k in d` is  k \in DOMAIN d  and a subscript of an absent key is a      *)
(* KeyError.                                                               *)
(***************************************************************************)
EXTENDS Naturals, Sequences, FiniteSets, TLC

VARIABLES
    PAGE,    \* the dict object the global name PAGE is bound to
    req,     \* per user: the request of that user being handled
    data,    \* fetcher harness: the decoded JSON response handed to a fetcher
    ret,     \* fetcher harness: what the fetcher returned
    fpc      \* fetcher harness: "idle" | "ready" | "returned"

vars == <<PAGE, req, data, ret, fpc>>

(***************************************************************************)
(* Bounds and input alphabets                                              *)
(***************************************************************************)
Users == {"u1", "u2"}

\* form values a client submits (opaque strings)
Values == {"Science", "Physics"}

\* the number of "/value" and "#value" parts a name may carry
MaxAppends == 3

\* the longest section list of a parse response
MaxSections == 3

\* the deepest nesting of a section
MaxLevel == 2

\* the most entries of a query response's pages map
MaxPages == 3

ROOT == "Wikipedia:Requested_articles"

(***************************************************************************)
(* Dictionaries                                                            *)
(***************************************************************************)
EmptyDict == [k \in {} |-> k]

Has(d, k) == k \in DOMAIN d

Put(d, k, v) == [j \in DOMAIN d \cup {k} |-> IF j = k THEN v ELSE d[j]]

\* The forms a submit request may carry: any subset of the two fields.
Forms ==
    UNION { [S -> Values] : S \in SUBSET {"category", "subcategory"} }

(***************************************************************************)
(* The fetchers, as functions of the decoded JSON response                 *)
(***************************************************************************)
\* the fetcher without its depth filter: every section's line
AllLines(parsed_sections) ==
    [i \in 1 .. Len(parsed_sections) |-> parsed_sections[i].line]

RECURSIVE TopLevelLines(_)
\* [section['line'] for section in parsed_sections if section['toclevel'] == 1]
TopLevelLines(parsed_sections) ==
    IF parsed_sections = <<>> THEN <<>>
    ELSE LET section == Head(parsed_sections)
         IN  (IF section.toclevel = 1 THEN <<section.line>> ELSE <<>>)
                 \o TopLevelLines(Tail(parsed_sections))

\* data.get('parse', {}).get('sections', [])
ParsedSections(d) ==
    LET parse == IF Has(d, "parse") THEN d.parse ELSE EmptyDict
    IN  IF Has(parse, "sections") THEN parse.sections ELSE <<>>

get_page_sections(d) ==
    IF Has(d, "error") THEN <<>>
    ELSE TopLevelLines(ParsedSections(d))

\* the fetcher without its `missing` filter: every linked page's title
AllTitles(values) == [i \in 1 .. Len(values) |-> values[i].title]

RECURSIVE MissingTitles(_)
\* [page['title'] for page in pages.values() if 'missing' in page]
\* pages.values() is the sequence of the map's values in the map's own order
MissingTitles(values) ==
    IF values = <<>> THEN <<>>
    ELSE LET page == Head(values)
         IN  (IF Has(page, "missing") THEN <<page.title>> ELSE <<>>)
                 \o MissingTitles(Tail(values))

\* data.get('query', {}).get('pages', {}), as the sequence of its entries
QueryPages(d) ==
    LET query == IF Has(d, "query") THEN d.query ELSE EmptyDict
    IN  IF Has(query, "pages") THEN query.pages ELSE <<>>

\* pages.values(): the pages map is a sequence of <<page id, page>> entries
PageValues(pages) == [i \in 1 .. Len(pages) |-> pages[i][2]]

get_red_links(d) == MissingTitles(PageValues(QueryPages(d)))

(***************************************************************************)
(* The replies the wiki may give to the handler's outbound calls           *)
(***************************************************************************)
Section(l, t) == [line |-> l, toclevel |-> t]

\* replies to action=parse
SectionReplies ==
    { [parse |-> [sections |-> <<Section("Science", 1), Section("Biology", 2),
                                 Section("Arts", 1)>>]],
      [error |-> [code |-> "missingtitle"]],
      EmptyDict }

\* replies to action=query&generator=links
LinkReplies ==
    { [query |-> [pages |-> << <<1, [title |-> "A"]>>,
                               <<2, [title |-> "B", missing |-> ""]>> >>]],
      [query |-> [pages |-> <<>>]],
      [batchcomplete |-> ""] }

(***************************************************************************)
(* State of index()                                                        *)
(***************************************************************************)
\* a read request that resets the name and leaves the kind of a submit
RootPageAsSubcategory == [name |-> <<ROOT>>, type |-> "subcategory"]

\* PAGE = {'name': 'Wikipedia:Requested_articles', 'type': 'category'}
RootPage == [name |-> <<ROOT>>, type |-> "category"]

\* the category appended without its separator
CategoryNameNoSeparator(old, v) == old \o <<v>>

\* PAGE['name'] + '/' + request.form.to_dict()['category']
CategoryName(old, v) == old \o <<"/", v>>

\* PAGE['name'] + '#' + request.form.to_dict()['subcategory']
SubcategoryName(old, v) == old \o <<"#", v>>

NoRender == [results |-> <<>>, pagetype |-> ""]

\* No request of the user is being handled.  In a request, results = [] is the
\* handler's first statement.  `bound` tells whether the dict object that the
\* += in progress has loaded is still the one PAGE is bound to.
NoRequest ==
    [pc |-> "idle", method |-> "", form |-> EmptyDict, bound |-> TRUE,
     old |-> <<>>, fetcher |-> "", arg |-> <<>>, results |-> <<>>,
     rendered |-> NoRender]

Returned == {"done", "KeyError", "NetworkError"}

Busy(u) == req[u].pc # "idle"

\* the branch of index() a request takes
Branch(m, f) ==
    IF m = "POST"
    THEN IF Has(f, "category") THEN "category"
         ELSE IF Has(f, "subcategory") THEN "subcategory"
         ELSE "none"
    ELSE "read"

\* the first statement of that branch that touches PAGE
Entry(b) ==
    CASE b = "read" -> "rebind"
      [] b = "none" -> "render"
      [] OTHER      -> "load"

Appends(d) == IF Has(d, "name") THEN (Len(d.name) - 1) \div 2 ELSE 0

\* submits that have still to append to a name
Pending == Cardinality({u \in Users : req[u].pc \in {"load", "store"}})

Init ==
    /\ PAGE = EmptyDict
    /\ req = [u \in Users |-> NoRequest]
    /\ data = EmptyDict
    /\ ret = <<>>
    /\ fpc = "idle"

Harness == UNCHANGED <<data, ret, fpc>>

(***************************************************************************)
(* index(), one action per statement that reads or writes PAGE             *)
(***************************************************************************)
\* a request reaches index(): results = [], and the branch is chosen
Accept(u, m, f) ==
    /\ ~Busy(u)
    /\ Branch(m, f) \in {"category", "subcategory"}
           => Appends(PAGE) + Pending < MaxAppends
    /\ req' = [req EXCEPT ![u] =
                  [NoRequest EXCEPT !.pc = Entry(Branch(m, f)),
                                    !.method = m, !.form = f]]
    /\ UNCHANGED PAGE
    /\ Harness

\* PAGE['name'] += ...: the dict is loaded and its name read (KeyError when
\* the key is absent)
Load(u) ==
    /\ req[u].pc = "load"
    /\ req' = [req EXCEPT ![u] =
                  IF Has(PAGE, "name")
                  THEN [@ EXCEPT !.pc = "store", !.bound = TRUE,
                                 !.old = PAGE.name]
                  ELSE [@ EXCEPT !.pc = "KeyError"]]
    /\ UNCHANGED PAGE
    /\ Harness

\* the name a submit stores
NewName(r) ==
    IF Branch(r.method, r.form) = "category"
    THEN CategoryName(r.old, r.form["category"])
    ELSE SubcategoryName(r.old, r.form["subcategory"])

\* PAGE['name'] += ...: the sum is stored into the dict that was loaded, which
\* nothing reads any more when PAGE has been bound to another dict since
Store(u) ==
    /\ req[u].pc = "store"
    /\ PAGE' = IF req[u].bound THEN Put(PAGE, "name", NewName(req[u])) ELSE PAGE
    /\ req' = [req EXCEPT ![u] =
                  [@ EXCEPT !.pc = "settype", !.bound = TRUE]]
    /\ Harness

\* PAGE['type'] = 'subcategory' | 'links'
NewType(r) ==
    IF Branch(r.method, r.form) = "category" THEN "subcategory" ELSE "links"

SetType(u) ==
    /\ req[u].pc = "settype"
    /\ PAGE' = Put(PAGE, "type", NewType(req[u]))
    /\ req' = [req EXCEPT ![u] = [@ EXCEPT !.pc = "call"]]
    /\ Harness

\* PAGE = {'name': ..., 'type': 'category'}: PAGE is bound to a new dict, and
\* a dict that a += in progress has loaded is no longer the one bound
Rebind(u) ==
    /\ req[u].pc = "rebind"
    /\ PAGE' = RootPage
    /\ req' = [w \in Users |->
                  IF w = u THEN [req[w] EXCEPT !.pc = "call"]
                  ELSE IF req[w].pc = "store" THEN [req[w] EXCEPT !.bound = FALSE]
                  ELSE req[w]]
    /\ Harness

\* every branch calling the Section Fetcher
FetcherSectionsOnly(b) == "get_page_sections"

\* the fetcher each branch calls
Fetcher(b) == IF b = "subcategory" THEN "get_red_links" ELSE "get_page_sections"

\* a request fetching with the name it has built itself rather than PAGE's
FetchArgOwn(u) == IF req[u].method = "GET" THEN <<ROOT>> ELSE NewName(req[u])

\* the argument of the fetcher: PAGE['name'], read when the call is made
FetchArg(u) == PAGE.name

\* results = get_page_sections(PAGE['name']) | get_red_links(PAGE['name'])
Call(u) ==
    /\ req[u].pc = "call"
    /\ LET f == Fetcher(Branch(req[u].method, req[u].form))
       IN  IF ~Has(PAGE, "name")
           THEN req' = [req EXCEPT ![u] = [@ EXCEPT !.pc = "KeyError"]]
           ELSE \E reply \in (IF f = "get_red_links" THEN LinkReplies
                                                     ELSE SectionReplies) :
                   req' = [req EXCEPT ![u] =
                       [@ EXCEPT !.pc = "render", !.fetcher = f,
                                 !.arg = FetchArg(u),
                                 !.results = IF f = "get_red_links"
                                             THEN get_red_links(reply)
                                             ELSE get_page_sections(reply)]]
    /\ UNCHANGED PAGE
    /\ Harness

\* a handler that restores the name it had read when the call of a submit faults
CallFaultRollback(u) ==
    /\ req[u].pc = "call"
    /\ Has(PAGE, "name")
    /\ req' = [req EXCEPT ![u] =
                  [@ EXCEPT !.pc = "NetworkError",
                            !.fetcher = Fetcher(Branch(req[u].method, req[u].form)),
                            !.arg = FetchArg(u)]]
    /\ PAGE' = IF req[u].method = "POST" THEN Put(PAGE, "name", req[u].old)
               ELSE PAGE
    /\ Harness

\* SESSION.get / res.json() raises: the exception leaves index()
CallFault(u) ==
    /\ req[u].pc = "call"
    /\ Has(PAGE, "name")
    /\ req' = [req EXCEPT ![u] =
                  [@ EXCEPT !.pc = "NetworkError",
                            !.fetcher = Fetcher(Branch(req[u].method, req[u].form)),
                            !.arg = FetchArg(u)]]
    /\ UNCHANGED PAGE
    /\ Harness

\* what index() hands to render_template
Rendered(u) == [results |-> req[u].results, pagetype |-> PAGE.type]

\* render_template("articles.html", results=results, pagetype=PAGE['type'])
Render(u) ==
    /\ req[u].pc = "render"
    /\ req' = [req EXCEPT ![u] =
                  IF Has(PAGE, "type")
                  THEN [@ EXCEPT !.pc = "done", !.rendered = Rendered(u)]
                  ELSE [@ EXCEPT !.pc = "KeyError"]]
    /\ UNCHANGED PAGE
    /\ Harness

\* index() has returned or raised: the response goes out, the request is over
Respond(u) ==
    /\ req[u].pc \in Returned
    /\ req' = [req EXCEPT ![u] = NoRequest]
    /\ UNCHANGED PAGE
    /\ Harness

Step(u) ==
    \/ Load(u)
    \/ Store(u)
    \/ SetType(u)
    \/ Rebind(u)
    \/ Call(u)
    \/ CallFault(u)
    \/ Render(u)
    \/ Respond(u)

Requests == {<<"GET", EmptyDict>>} \cup {<<"POST", f>> : f \in Forms}

\* one request at a time: a request is accepted when none is being handled
Serve(u) ==
    /\ \A w \in Users : ~Busy(w)
    /\ \E q \in Requests : Accept(u, q[1], q[2])

\* the requests the users of the threaded server send
ThreadedRequests ==
    { <<"GET", EmptyDict>>,
      <<"POST", [category |-> "Science"]>>,
      <<"POST", [subcategory |-> "Physics"]>>,
      <<"POST", EmptyDict>> }

\* a threaded server: a request is accepted while others are being handled
ServeThreaded(u) == \E q \in ThreadedRequests : Accept(u, q[1], q[2])

Next == \E u \in Users : Serve(u) \/ Step(u)

Spec == Init /\ [][Next]_vars

NextThreaded == \E u \in Users : ServeThreaded(u) \/ Step(u)

SpecThreaded == Init /\ [][NextThreaded]_vars

TypeOK ==
    /\ \A u \in Users : req[u].pc \in Returned \cup
           {"idle", "load", "store", "settype", "rebind", "call", "render"}
    /\ DOMAIN PAGE \in {{}, {"name", "type"}}
    /\ Appends(PAGE) <= MaxAppends

(***************************************************************************)
(* The fetchers on their own: a response is decoded, the fetcher returns   *)
(***************************************************************************)
\* sequences over S of length at most n
SeqsUpTo(S, n) == UNION { [1 .. k -> S] : k \in 0 .. n }

Lines == {"A", "B"}

\* { line: string, toclevel: int }
SectionEntries == { Section(l, t) : l \in Lines, t \in 1 .. MaxLevel }

\* the value of "parse": with or without "sections"
ParseObjects ==
    {EmptyDict} \cup { [sections |-> s] : s \in SeqsUpTo(SectionEntries, MaxSections) }

\* what res.json() may be for action=parse:
\* { parse: {...} } | { error: ... }, with either field present or absent
ParseResponses ==
    {EmptyDict, [error |-> [code |-> "missingtitle"]]}
      \cup { [parse |-> p] : p \in ParseObjects }
      \cup { [error |-> [code |-> "missingtitle"], parse |-> p] : p \in ParseObjects }

Titles == {"A", "B"}

\* the values a "missing" marker may have
Markers == {"", "1"}

\* { title: string, missing?: any }
PageEntries ==
    { [title |-> t] : t \in Titles }
      \cup { [title |-> t, missing |-> m] : t \in Titles, m \in Markers }

\* the pages map, keyed by page id in the order of the response
PageMaps ==
    { [i \in 1 .. Len(ps) |-> <<i, ps[i]>>] : ps \in SeqsUpTo(PageEntries, MaxPages) }

\* what res.json() may be for action=query
QueryResponses ==
    {EmptyDict, [query |-> EmptyDict]} \cup { [query |-> [pages |-> m]] : m \in PageMaps }

HandlerIdle ==
    /\ PAGE = EmptyDict
    /\ req = [u \in Users |-> NoRequest]

InitSections ==
    /\ HandlerIdle
    /\ data \in ParseResponses
    /\ ret = <<>>
    /\ fpc = "ready"

\* data = res.json(); return get_page_sections' value for it
ReturnSections ==
    /\ fpc = "ready"
    /\ ret' = get_page_sections(data)
    /\ fpc' = "returned"
    /\ UNCHANGED <<PAGE, req, data>>

SpecSections == InitSections /\ [][ReturnSections]_vars

InitRedLinks ==
    /\ HandlerIdle
    /\ data \in QueryResponses
    /\ ret = <<>>
    /\ fpc = "ready"

\* data = res.json(); return get_red_links' value for it
ReturnRedLinks ==
    /\ fpc = "ready"
    /\ ret' = get_red_links(data)
    /\ fpc' = "returned"
    /\ UNCHANGED <<PAGE, req, data>>

SpecRedLinks == InitRedLinks /\ [][ReturnRedLinks]_vars

(***************************************************************************)
(* Vocabulary of the properties                                            *)
(***************************************************************************)
\* NavigationState.name and NavigationState.kind ("" and "none" while PAGE = {})
Name == IF Has(PAGE, "name") THEN PAGE.name ELSE <<>>

Kind == IF Has(PAGE, "type") THEN PAGE.type ELSE "none"

Rank(k) ==
    CASE k = "category"    -> 1
      [] k = "subcategory" -> 2
      [] k = "links"       -> 3
      [] OTHER             -> 0

IsRead(u) == req[u].method = "GET"

IsSubmit(u) == req[u].method = "POST"

IsCategory(u) == IsSubmit(u) /\ Has(req[u].form, "category")

IsSubcategory(u) ==
    IsSubmit(u) /\ ~Has(req[u].form, "category") /\ Has(req[u].form, "subcategory")

\* the request of u makes its outbound call in this step
Calls(u) == req[u].pc = "call" /\ req'[u].pc \in {"render", "NetworkError"}

IsPrefix(a, b) == Len(a) <= Len(b) /\ SubSeq(b, 1, Len(a)) = a

\* root, then "/" parts, then "#" parts: no "/" part after a "#" part
WellShaped(n) ==
    n # <<>> =>
        /\ n[1] = ROOT
        /\ \A i, j \in 2 .. Len(n) : (n[i] = "#" /\ n[j] = "/") => j < i

\* how many entries of seq equal x
Count(seq, x) == Cardinality({i \in DOMAIN seq : seq[i] = x})

(***************************************************************************)
(* C1: no submit request moves the kind back to an earlier one, and no     *)
(* submit request changes NavigationState once the kind is `links`.        *)
(* The handler does not look at the kind, and TLC finds this violated:     *)
(* a submit in kind `links` appends to the name and sets another kind.     *)
(***************************************************************************)
C1_ForwardOnly ==
    [][\A u \in Users : IsSubmit(u) =>
          /\ Rank(Kind') >= Rank(Kind)
          /\ Kind = "links" => PAGE' = PAGE]_vars

(***************************************************************************)
(* C2: a read request binds NavigationState to exactly                     *)
(* {name: root, kind: category} whatever it was, calls the Section Fetcher *)
(* with the root name, and hands the fetcher's list, unchanged, and        *)
(* pagetype "category" to rendering.                                       *)
(***************************************************************************)
C2_ReadResets ==
    [][\A u \in Users : IsRead(u) =>
          /\ req[u].pc = "rebind" =>
                PAGE' = [name |-> <<ROOT>>, type |-> "category"]
          /\ Calls(u) =>
                /\ req'[u].fetcher = "get_page_sections"
                /\ req'[u].arg = <<ROOT>>
          /\ req[u].pc = "call" /\ req'[u].pc = "render" =>
                req'[u].results \in {get_page_sections(r) : r \in SectionReplies}
          /\ req[u].pc = "render" =>
                /\ req'[u].pc = "done"
                /\ req'[u].rendered =
                       [results |-> req[u].results, pagetype |-> "category"]]_vars

\* a read request after earlier submits has rendered the two section titles
C2_Witness ==
    \E u \in Users :
        /\ IsRead(u)
        /\ req[u].pc = "done"
        /\ req[u].arg = <<ROOT>>
        /\ req[u].rendered =
               [results |-> <<"Science", "Arts">>, pagetype |-> "category"]
        /\ PAGE = [name |-> <<ROOT>>, type |-> "category"]

(***************************************************************************)
(* C3: a submit with category = v in a state named n makes the state       *)
(* {name: n + "/" + v, kind: subcategory}, calls the Section Fetcher (not  *)
(* the Red-Link Fetcher) with that name, and renders its results with      *)
(* pagetype "subcategory".                                                 *)
(***************************************************************************)
C3_CategorySubmit ==
    [][\A u \in Users : IsCategory(u) =>
          LET v == req[u].form["category"]
          IN  /\ req[u].pc = "load" /\ Has(PAGE, "name") =>
                    req'[u].old = PAGE.name
              /\ req[u].pc = "store" =>
                    PAGE' = [PAGE EXCEPT !.name = req[u].old \o <<"/", v>>]
              /\ req[u].pc = "settype" =>
                    PAGE' = [name |-> req[u].old \o <<"/", v>>,
                             type |-> "subcategory"]
              /\ Calls(u) =>
                    /\ req'[u].fetcher = "get_page_sections"
                    /\ req'[u].arg = req[u].old \o <<"/", v>>
                    /\ PAGE = [name |-> req[u].old \o <<"/", v>>,
                               type |-> "subcategory"]
              /\ req[u].pc = "call" /\ req'[u].pc = "render" =>
                    req'[u].results \in
                        {get_page_sections(r) : r \in SectionReplies}
              /\ req[u].pc = "render" =>
                    /\ req'[u].pc = "done"
                    /\ req'[u].rendered =
                           [results |-> req[u].results,
                            pagetype |-> "subcategory"]]_vars

\* the root page, category = "Science": the section titles are rendered
C3_Witness ==
    \E u \in Users :
        /\ IsCategory(u)
        /\ req[u].pc = "done"
        /\ req[u].old = <<ROOT>>
        /\ req[u].form["category"] = "Science"
        /\ req[u].fetcher = "get_page_sections"
        /\ req[u].arg = <<ROOT, "/", "Science">>
        /\ PAGE = [name |-> <<ROOT, "/", "Science">>, type |-> "subcategory"]
        /\ req[u].rendered =
               [results |-> <<"Science", "Arts">>, pagetype |-> "subcategory"]

(***************************************************************************)
(* C4: a submit with subcategory = v and no category field, in a state     *)
(* named n, makes the state {name: n + "#" + v, kind: links}, calls the    *)
(* Red-Link Fetcher (not the Section Fetcher) with that name, and renders  *)
(* its results with pagetype "links".                                      *)
(***************************************************************************)
C4_SubcategorySubmit ==
    [][\A u \in Users : IsSubcategory(u) =>
          LET v == req[u].form["subcategory"]
          IN  /\ req[u].pc = "load" /\ Has(PAGE, "name") =>
                    req'[u].old = PAGE.name
              /\ req[u].pc = "store" =>
                    PAGE' = [PAGE EXCEPT !.name = req[u].old \o <<"#", v>>]
              /\ req[u].pc = "settype" =>
                    PAGE' = [name |-> req[u].old \o <<"#", v>>, type |-> "links"]
              /\ Calls(u) =>
                    /\ req'[u].fetcher = "get_red_links"
                    /\ req'[u].arg = req[u].old \o <<"#", v>>
                    /\ PAGE = [name |-> req[u].old \o <<"#", v>>, type |-> "links"]
              /\ req[u].pc = "call" /\ req'[u].pc = "render" =>
                    req'[u].results \in {get_red_links(r) : r \in LinkReplies}
              /\ req[u].pc = "render" =>
                    /\ req'[u].pc = "done"
                    /\ req'[u].rendered =
                           [results |-> req[u].results, pagetype |-> "links"]]_vars

\* a subcategory page, subcategory = "Physics": the red link is rendered
C4_Witness ==
    \E u \in Users :
        /\ IsSubcategory(u)
        /\ req[u].pc = "done"
        /\ req[u].old = <<ROOT, "/", "Science">>
        /\ req[u].form["subcategory"] = "Physics"
        /\ req[u].fetcher = "get_red_links"
        /\ req[u].arg = <<ROOT, "/", "Science", "#", "Physics">>
        /\ PAGE = [name |-> <<ROOT, "/", "Science", "#", "Physics">>,
                   type |-> "links"]
        /\ req[u].rendered = [results |-> <<"B">>, pagetype |-> "links"]

(***************************************************************************)
(* C5: between two read requests the name never shrinks (after a submit    *)
(* the previous name is a prefix of the new one) and keeps the shape root, *)
(* "/category" parts, then "#subsection" parts.  TLC finds the shape       *)
(* violated: a category submit after a subcategory submit stores a name    *)
(* with a "/" part after a "#" part.                                       *)
(***************************************************************************)
C5_NameGrows ==
    [][\A u \in Users : IsSubmit(u) =>
          /\ IsPrefix(Name, Name')
          /\ WellShaped(Name')]_vars

(***************************************************************************)
(* C6: no submit request faults on its input, in any state including the   *)
(* one before the first read request: it completes and hands a list to     *)
(* rendering, the empty list when it carries neither field.  TLC finds     *)
(* this violated: while PAGE = {} a submit raises KeyError.                *)
(***************************************************************************)
C6_NoFault ==
    \A u \in Users : IsSubmit(u) =>
        /\ req[u].pc # "KeyError"
        /\ (req[u].pc = "done" /\ Branch(req[u].method, req[u].form) = "none")
               => req[u].rendered.results = <<>>

(***************************************************************************)
(* C7: NavigationState is one unsynchronized record shared by all users.   *)
(* Each statement of a request reads it as it stands at that moment,       *)
(* whoever wrote it: the name fetched is the shared name at the call, the  *)
(* pagetype rendered is the shared kind at the render, a += reads the      *)
(* shared name, and a read request replaces the record whatever another    *)
(* user has built up in it.                                                *)
(***************************************************************************)
C7_SharedRecord ==
    [][\A u \in Users :
          /\ Calls(u) => req'[u].arg = PAGE.name
          /\ req[u].pc = "render" /\ req'[u].pc = "done" =>
                req'[u].rendered.pagetype = PAGE.type
          /\ req[u].pc = "load" /\ req'[u].pc = "store" =>
                req'[u].old = PAGE.name
          /\ req[u].pc = "rebind" /\ req'[u].pc = "call" =>
                PAGE' = [name |-> <<ROOT>>, type |-> "category"]]_vars

\* u stored root/Science and set subcategory; it has fetched with the name
\* and rendered the kind that w's submit left, and w's read request has since
\* replaced the name
C7_Witness ==
    \E u, w \in Users :
        /\ u # w
        /\ IsCategory(u)
        /\ req[u].pc = "done"
        /\ req[u].old = <<ROOT>>
        /\ req[u].arg = <<ROOT, "/", "Science", "#", "Physics">>
        /\ req[u].rendered.pagetype = "links"
        /\ IsRead(w)
        /\ req[w].pc = "call"
        /\ PAGE = [name |-> <<ROOT>>, type |-> "category"]

(***************************************************************************)
(* C8: the Section Fetcher returns [] when the response has an `error`     *)
(* field, whatever else it has; otherwise exactly the `line` of the        *)
(* entries with toclevel = 1, in the response's order, and [] when `parse` *)
(* or `sections` is absent.                                                *)
(***************************************************************************)
C8_TopLevelSections ==
    fpc = "returned" /\ data \in ParseResponses =>
        IF Has(data, "error") THEN ret = <<>>
        ELSE IF ~Has(data, "parse") THEN ret = <<>>
        ELSE IF ~Has(data.parse, "sections") THEN ret = <<>>
        ELSE LET secs == data.parse.sections
                 top  == {i \in 1 .. Len(secs) : secs[i].toclevel = 1}
             IN  /\ Len(ret) = Cardinality(top)
                 /\ \A i \in top :
                        ret[Cardinality({j \in top : j <= i})] = secs[i].line

\* sections at two depths, a deeper one between two top-level ones
C8_Witness ==
    /\ fpc = "returned"
    /\ data = [parse |-> [sections |->
                  <<Section("A", 1), Section("B", 2), Section("B", 1)>>]]
    /\ ret = <<"A", "B">>

(***************************************************************************)
(* C9: the Red-Link Fetcher returns exactly the titles of the entries of   *)
(* `pages` that carry a `missing` marker, whatever its value, one title    *)
(* per such entry and none for the others; [] when `pages` is empty or     *)
(* when `query` or `pages` is absent.                                      *)
(***************************************************************************)
C9_MissingTitles ==
    fpc = "returned" /\ data \in QueryResponses =>
        IF ~Has(data, "query") THEN ret = <<>>
        ELSE IF ~Has(data.query, "pages") THEN ret = <<>>
        ELSE LET pages   == data.query.pages
                 missing == {i \in 1 .. Len(pages) : Has(pages[i][2], "missing")}
             IN  /\ Len(ret) = Cardinality(missing)
                 /\ \A t \in Titles :
                        Count(ret, t) =
                            Cardinality({i \in missing : pages[i][2].title = t})

\* {"1": {title: A}, "2": {title: B, missing: ""}} gives exactly B
C9_Witness ==
    /\ fpc = "returned"
    /\ data = [query |-> [pages |-> << <<1, [title |-> "A"]>>,
                                       <<2, [title |-> "B", missing |-> ""]>> >>]]
    /\ ret = <<"B">>

(***************************************************************************)
(* C10: the handler updates NavigationState before the outbound call and   *)
(* does not roll it back: when the call of a submit faults, the state      *)
(* holds the appended name and the new kind, and a following submit reads  *)
(* that name to append to; when the call of a read request faults, the     *)
(* state is the root page.                                                 *)
(***************************************************************************)
C10_NoRollback ==
    [][\A u \in Users :
          /\ req[u].pc = "call" /\ req'[u].pc = "NetworkError" =>
                /\ PAGE' = PAGE
                /\ IsCategory(u) =>
                      PAGE = [name |-> req[u].old \o <<"/", req[u].form["category"]>>,
                              type |-> "subcategory"]
                /\ IsSubcategory(u) =>
                      PAGE = [name |-> req[u].old \o <<"#", req[u].form["subcategory"]>>,
                              type |-> "links"]
                /\ IsRead(u) => PAGE = [name |-> <<ROOT>>, type |-> "category"]
          /\ req[u].pc = "NetworkError" => PAGE' = PAGE
          /\ req[u].pc = "load" /\ req'[u].pc = "store" =>
                req'[u].old = PAGE.name]_vars

\* the call of a category submit has faulted: the appended name is in place
C10_Witness ==
    \E u \in Users :
        /\ IsCategory(u)
        /\ req[u].pc = "NetworkError"
        /\ req[u].old = <<ROOT>>
        /\ PAGE = [name |-> <<ROOT, "/", "Physics">>, type |-> "subcategory"]

====
